---- MODULE Spec2Model ----
(***************************************************************************)
(* The recipe router (routes/Recipe.js): five HTTP routes, each making one *)
(* call on the Recipe model (a Mongoose model over one MongoDB collection) *)
(* and mapping the outcome to a status code and a JSON body.               *)
(*                                                                         *)
(* A JSON object is a function from its keys to their values: a field the  *)
(* object omits is a key outside its DOMAIN (JavaScript's undefined).  A   *)
(* stored field holding null is likewise modelled as a field the document  *)
(* lacks.                                                                  *)
(***************************************************************************)
EXTENDS Integers, Sequences, FiniteSets, TLC

\* Total number of requests one behaviour receives.
MaxRequests == 3

\* Requests whose handlers may be suspended on their store call at once.
Clients == {"c1", "c2"}

\* Identifier strings that parse as an ObjectId, and one that does not.
ValidIds == {"a1", "b2"}
MalformedIds == {"zz"}
PathIds == ValidIds \cup MalformedIds

\* The four fields every handler destructures from req.body.
Fields == {"title", "ingredients", "instructions", "image"}

\* The fields the Recipe schema requires.
RequiredFields == {"title", "ingredients", "instructions"}

\* Request bodies: complete ones with and without image, one that omits
\* only ingredients, one with an empty title, and one that omits all four
\* fields and carries an _id.
Bodies ==
    { [title |-> "Tea", ingredients |-> <<"water", "tea leaves">>,
       instructions |-> "Boil and steep."],
      [title |-> "Cookies", ingredients |-> <<"flour">>,
       instructions |-> "Bake.", image |-> "img.jpg"],
      [title |-> "Tea", instructions |-> "Boil and steep.", image |-> "img.jpg"],
      [title |-> "", ingredients |-> <<"flour">>, instructions |-> "Bake."],
      [_id |-> "b2"] }

NoBody == [none |-> TRUE]
NoId == "-"
NoDoc == [none |-> TRUE]

VARIABLES
    recipes,        \* the collection, in insertion order
    omitUndefined,  \* whether the Mongoose release in use strips undefined
                    \* keys from an update (6 and later) or writes them as
                    \* null (5)
    reqs,           \* per client: the request in flight or last answered
    received,       \* number of requests received so far
    issued,         \* history: ids assigned by successful creates
    deleted,        \* history: ids a delete has removed
    createdWith,    \* history: id -> the body its create was sent
    modified,       \* history: ids an update or delete has acted on
    listed,         \* history: ids in the last successful list response
    existedAtIssue  \* history: per client, was the path id stored when
                    \* the request arrived

vars == <<recipes, omitUndefined, reqs, received, issued, deleted,
          createdWith, modified, listed, existedAtIssue>>

----------------------------------------------------------------------------
\* The Recipe model's operations.

Ids(coll) == {coll[i]._id : i \in 1..Len(coll)}

Has(coll, id) == id \in Ids(coll)

DocOf(coll, id) == coll[CHOOSE i \in 1..Len(coll) : coll[i]._id = id]

Restrict(f, keys) == [k \in (DOMAIN f \cap keys) |-> f[k]]

\* Outcomes of a model call.
Threw == [kind |-> "throw", doc |-> NoDoc]
Null == [kind |-> "null", doc |-> NoDoc]
Found(d) == [kind |-> "doc", doc |-> d]

\* Recipe.find()
findFirst(coll) == IF coll = <<>> THEN coll ELSE <<coll[1]>>

find(coll) == coll

\* Recipe.findById(id): a malformed id fails to cast and the query rejects.
findById(coll, id) ==
    IF id \notin ValidIds THEN Threw
    ELSE IF Has(coll, id) THEN Found(DocOf(coll, id))
    ELSE Null

\* The schema's validation of a new document: each required path must be
\* present, and a required string must be non-empty.
Validates(fields) ==
    /\ RequiredFields \subseteq DOMAIN fields
    /\ fields.title # ""

\* The ids a new document can be given: never one assigned before.
FreshIdsReuse(coll, everIssued) == ValidIds \ Ids(coll)

FreshIds(coll, everIssued) == ValidIds \ everIssued

\* The document Recipe.create builds from the object the handler passes.
NewDocSwapped(fields, id) ==
    [k \in (DOMAIN fields \cap Fields) \cup {"_id"} |->
        IF k = "_id" THEN id
        ELSE IF k = "title" THEN fields.instructions
        ELSE IF k = "instructions" THEN fields.title
        ELSE fields[k]]

NewDoc(fields, id) ==
    [k \in (DOMAIN fields \cap Fields) \cup {"_id"} |->
        IF k = "_id" THEN id ELSE fields[k]]

\* The document an update leaves: every key the update object defines is
\* set; a key it leaves undefined is dropped from the update
\* (omitUndefined) or written as null.
Updated(doc, update, omit) ==
    LET kept == IF omit THEN DOMAIN doc ELSE {"_id"}
    IN [k \in kept \cup DOMAIN update |->
           IF k \in DOMAIN update THEN update[k] ELSE doc[k]]

Replace(coll, id, d) ==
    [i \in 1..Len(coll) |-> IF coll[i]._id = id THEN d ELSE coll[i]]

Remove(coll, id) == SelectSeq(coll, LAMBDA d : d._id # id)


\* Recipe.findByIdAndUpdate(id, update, { new: true }): the collection it
\* leaves and what it resolves to.  No validators run on an update.
findByIdAndUpdateOld(coll, id, update, omit) ==
    IF id \notin ValidIds THEN [coll |-> coll, res |-> Threw]
    ELSE IF ~Has(coll, id) THEN [coll |-> coll, res |-> Null]
    ELSE LET d == Updated(DocOf(coll, id), update, omit)
         IN [coll |-> Replace(coll, id, d), res |-> Found(DocOf(coll, id))]

findByIdAndUpdateUpsert(coll, id, update, omit) ==
    IF id \notin ValidIds THEN [coll |-> coll, res |-> Threw]
    ELSE IF ~Has(coll, id)
         THEN LET d == Updated([_id |-> id], update, omit)
              IN [coll |-> Append(coll, d), res |-> Found(d)]
    ELSE LET d == Updated(DocOf(coll, id), update, omit)
         IN [coll |-> Replace(coll, id, d), res |-> Found(d)]

findByIdAndUpdate(coll, id, update, omit) ==
    IF id \notin ValidIds THEN [coll |-> coll, res |-> Threw]
    ELSE IF ~Has(coll, id) THEN [coll |-> coll, res |-> Null]
    ELSE LET d == Updated(DocOf(coll, id), update, omit)
         IN [coll |-> Replace(coll, id, d), res |-> Found(d)]

\* Recipe.findByIdAndDelete(id)
findByIdAndDeleteKeep(coll, id) ==
    IF id \notin ValidIds THEN [coll |-> coll, res |-> Threw]
    ELSE IF ~Has(coll, id) THEN [coll |-> coll, res |-> Null]
    ELSE [coll |-> coll, res |-> Found(DocOf(coll, id))]

findByIdAndDelete(coll, id) ==
    IF id \notin ValidIds THEN [coll |-> coll, res |-> Threw]
    ELSE IF ~Has(coll, id) THEN [coll |-> coll, res |-> Null]
    ELSE [coll |-> Remove(coll, id), res |-> Found(DocOf(coll, id))]

\* Recipe.create(fields): validation failure rejects and stores nothing.
create(coll, fields, id) ==
    IF ~Validates(fields) THEN [coll |-> coll, res |-> Threw]
    ELSE LET d == NewDoc(fields, id)
         IN [coll |-> Append(coll, d), res |-> Found(d)]

----------------------------------------------------------------------------
\* The handlers' mapping of a store outcome to a response.

InternalError == [status |-> 500, body |-> [error |-> "Internal Server Error"]]
NotFound == [status |-> 404, body |-> [error |-> "Recipe not found"]]
InvalidData == [status |-> 400, body |-> [error |-> "Invalid data"]]

\* const { title, ingredients, instructions, image } = req.body
Destructure(body) == Restrict(body, Fields)

\* GET /recipes/:id, PUT /recipes/:id
DocResponseLenient(res) ==
    IF res.kind = "doc" THEN [status |-> 200, body |-> res.doc]
    ELSE NotFound

DocResponse(res) ==
    IF res.kind = "throw" THEN InternalError
    ELSE IF res.kind = "null" THEN NotFound
    ELSE [status |-> 200, body |-> res.doc]

\* DELETE /recipes/:id
DeleteResponseUnchecked(res) ==
    IF res.kind = "throw" THEN InternalError
    ELSE [status |-> 200, body |-> [message |-> "Recipe deleted"]]

DeleteResponse(res) ==
    IF res.kind = "throw" THEN InternalError
    ELSE IF res.kind = "null" THEN NotFound
    ELSE [status |-> 200, body |-> [message |-> "Recipe deleted"]]

\* POST /recipes
CreateResponseAsServerError(res) ==
    IF res.kind = "throw" THEN InternalError
    ELSE [status |-> 201,
          body |-> [message |-> "Recipe Created", recipe |-> res.doc]]

CreateResponse(res) ==
    IF res.kind = "throw" THEN InvalidData
    ELSE [status |-> 201,
          body |-> [message |-> "Recipe Created", recipe |-> res.doc]]

----------------------------------------------------------------------------
Idle == [pc |-> "idle", op |-> "-", id |-> NoId, body |-> NoBody,
         failed |-> FALSE, resp |-> [status |-> 0, body |-> NoBody]]

Init ==
    /\ recipes = <<>>
    /\ omitUndefined \in BOOLEAN
    /\ reqs = [c \in Clients |-> Idle]
    /\ received = 0
    /\ issued = {}
    /\ deleted = {}
    /\ createdWith = [i \in ValidIds |-> NoBody]
    /\ modified = {}
    /\ listed = {}
    /\ existedAtIssue = [c \in Clients |-> FALSE]

\* A request arrives and its handler runs up to the await of its store call.
Receive(c, op, id, body) ==
    /\ reqs[c].pc # "pending"
    /\ received < MaxRequests
    /\ received' = received + 1
    /\ reqs' = [reqs EXCEPT ![c] =
                  [pc |-> "pending", op |-> op, id |-> id, body |-> body,
                   failed |-> FALSE, resp |-> Idle.resp]]
    /\ existedAtIssue' = [existedAtIssue EXCEPT ![c] = Has(recipes, id)]
    /\ UNCHANGED <<recipes, omitUndefined, issued, deleted, createdWith,
                   modified, listed>>

ReceiveList(c) == Receive(c, "LIST", NoId, NoBody)
ReceiveGet(c) == \E id \in PathIds : Receive(c, "GET", id, NoBody)
ReceiveCreate(c) == \E b \in Bodies : Receive(c, "POST", NoId, b)
ReceiveUpdate(c) ==
    \E id \in PathIds, b \in Bodies : Receive(c, "PUT", id, b)
ReceiveDelete(c) == \E id \in PathIds : Receive(c, "DELETE", id, NoBody)

Answer(c, resp, down) ==
    reqs' = [reqs EXCEPT ![c].pc = "done", ![c].resp = resp,
                         ![c].failed = down]

\* router.get('/recipes'): `down` is the store call rejecting.
GetRecipes(c) ==
    /\ reqs[c].pc = "pending" /\ reqs[c].op = "LIST"
    /\ \E down \in BOOLEAN :
         LET resp == IF down THEN InternalError
                     ELSE [status |-> 200, body |-> find(recipes)]
         IN /\ Answer(c, resp, down)
            /\ listed' = IF down THEN listed ELSE Ids(resp.body)
    /\ UNCHANGED <<recipes, omitUndefined, received, issued, deleted,
                   createdWith, modified, existedAtIssue>>

\* router.get('/recipes/:id')
GetRecipe(c) ==
    /\ reqs[c].pc = "pending" /\ reqs[c].op = "GET"
    /\ \E down \in BOOLEAN :
         LET res == IF down THEN Threw ELSE findById(recipes, reqs[c].id)
         IN Answer(c, DocResponse(res), down)
    /\ UNCHANGED <<recipes, omitUndefined, received, issued, deleted,
                   createdWith, modified, listed, existedAtIssue>>

\* router.post('/recipes')
CreateRecipe(c) ==
    /\ reqs[c].pc = "pending" /\ reqs[c].op = "POST"
    /\ \E down \in BOOLEAN, id \in FreshIds(recipes, issued) :
         LET out == IF down THEN [coll |-> recipes, res |-> Threw]
                    ELSE create(recipes, Destructure(reqs[c].body), id)
             ok == out.res.kind = "doc"
         IN /\ Answer(c, CreateResponse(out.res), down)
            /\ recipes' = out.coll
            /\ issued' = IF ok THEN issued \cup {out.res.doc._id} ELSE issued
            /\ createdWith' =
                 IF ok THEN [createdWith EXCEPT ![out.res.doc._id] = reqs[c].body]
                 ELSE createdWith
    /\ UNCHANGED <<omitUndefined, received, deleted, modified, listed,
                   existedAtIssue>>

\* router.put('/recipes/:id')
UpdateRecipe(c) ==
    /\ reqs[c].pc = "pending" /\ reqs[c].op = "PUT"
    /\ \E down \in BOOLEAN :
         LET out == IF down THEN [coll |-> recipes, res |-> Threw]
                    ELSE findByIdAndUpdate(recipes, reqs[c].id,
                             Destructure(reqs[c].body), omitUndefined)
         IN /\ Answer(c, DocResponse(out.res), down)
            /\ recipes' = out.coll
            /\ modified' = IF out.res.kind = "doc"
                           THEN modified \cup {reqs[c].id} ELSE modified
    /\ UNCHANGED <<omitUndefined, received, issued, deleted, createdWith,
                   listed, existedAtIssue>>

\* router.delete('/recipes/:id')
DeleteRecipe(c) ==
    /\ reqs[c].pc = "pending" /\ reqs[c].op = "DELETE"
    /\ \E down \in BOOLEAN :
         LET out == IF down THEN [coll |-> recipes, res |-> Threw]
                    ELSE findByIdAndDelete(recipes, reqs[c].id)
             ok == out.res.kind = "doc"
         IN /\ Answer(c, DeleteResponse(out.res), down)
            /\ recipes' = out.coll
            /\ deleted' = IF ok THEN deleted \cup {reqs[c].id} ELSE deleted
            /\ modified' = IF ok THEN modified \cup {reqs[c].id} ELSE modified
    /\ UNCHANGED <<omitUndefined, received, issued, createdWith, listed,
                   existedAtIssue>>

Next ==
    \E c \in Clients :
        \/ ReceiveList(c)
        \/ ReceiveGet(c)
        \/ ReceiveCreate(c)
        \/ ReceiveUpdate(c)
        \/ ReceiveDelete(c)
        \/ GetRecipes(c)
        \/ GetRecipe(c)
        \/ CreateRecipe(c)
        \/ UpdateRecipe(c)
        \/ DeleteRecipe(c)

Spec == Init /\ [][Next]_vars

----------------------------------------------------------------------------
\* Vocabulary of the properties.

\* Client c's handler resumes from its store call and answers in this step.
Completes(c, op) ==
    /\ reqs[c].pc = "pending"
    /\ reqs[c].op = op
    /\ reqs'[c].pc = "done"

\* The same, with the store call itself not rejected by an outage.
Served(c, op) == Completes(c, op) /\ ~reqs'[c].failed

Answered(c, op) == reqs[c].pc = "done" /\ reqs[c].op = op /\ ~reqs[c].failed

\* Documents d and e agree on field f: both lack it or both hold one value.
SameField(d, e, f) ==
    /\ f \in DOMAIN d <=> f \in DOMAIN e
    /\ f \in DOMAIN d => d[f] = e[f]

SameFields(d, e) == \A f \in Fields : SameField(d, e, f)

IdSeq(coll) == [i \in 1..Len(coll) |-> coll[i]._id]

----------------------------------------------------------------------------
\* C1: a Get by id of a created record that no Update or Delete has acted
\* on answers 200 with exactly the title, ingredients, instructions and
\* image its Create was sent, whatever happened to other identifiers.
C1_CreateGetRoundTrip ==
    [][\A c \in Clients :
         (Served(c, "GET") /\ reqs[c].id \in issued \ modified)
         => /\ reqs'[c].resp.status = 200
            /\ SameFields(reqs'[c].resp.body, createdWith[reqs[c].id])
            /\ reqs'[c].resp.body._id = reqs[c].id]_vars

C1_Witness ==
    \E c \in Clients :
        /\ Answered(c, "GET")
        /\ reqs[c].resp.status = 200
        /\ reqs[c].id \in issued \ modified
        /\ "image" \in DOMAIN reqs[c].resp.body
        /\ Len(recipes) = 1

\* C2: an identifier a Delete has answered 200 for is never stored again,
\* and every Get by id on it that the store serves afterwards answers 404.
C2_DeletedStaysGone ==
    [][/\ \A i \in deleted' : ~Has(recipes', i)
       /\ \A c \in Clients :
            (Served(c, "GET") /\ reqs[c].id \in deleted)
            => reqs'[c].resp = NotFound]_vars

C2_Witness ==
    \E c \in Clients :
        /\ Answered(c, "GET")
        /\ reqs[c].id \in deleted
        /\ reqs[c].resp.status = 404

\* C3 as claimed: for every identifier string never issued or already
\* deleted, Get, Update and Delete by id answer 404 and leave the store
\* as it was.
C3_Original ==
    [][\A c \in Clients : \A op \in {"GET", "PUT", "DELETE"} :
         (Served(c, op) /\ reqs[c].id \in (PathIds \ issued) \cup deleted)
         => /\ reqs'[c].resp.status = 404
            /\ recipes' = recipes]_vars

\* C3 amended: the same for every well-formed identifier.
C3_UnknownIdNotFound ==
    [][\A c \in Clients : \A op \in {"GET", "PUT", "DELETE"} :
         (Served(c, op) /\ reqs[c].id \in (ValidIds \ issued) \cup deleted)
         => /\ reqs'[c].resp = NotFound
            /\ recipes' = recipes]_vars

C3_Witness ==
    \E c \in Clients :
        /\ Answered(c, "DELETE")
        /\ reqs[c].id \in deleted
        /\ reqs[c].resp.status = 404
        /\ recipes = <<>>

C6_ListNeverShrinks ==
    [][\A c \in Clients :
         (Served(c, "LIST") /\ deleted = {})
         => /\ reqs'[c].resp.status = 200
            /\ issued \subseteq Ids(reqs'[c].resp.body)
            /\ listed \subseteq Ids(reqs'[c].resp.body)
            /\ \A i \in issued :
                 DocOf(reqs'[c].resp.body, i) = DocOf(recipes, i)]_vars

C6_Witness ==
    \E c \in Clients :
        /\ Answered(c, "LIST")
        /\ deleted = {}
        /\ Len(reqs[c].resp.body) = 2
        /\ issued = ValidIds

\* C7: Get, Update and Delete by id with a malformed identifier answer
\* exactly what a store failure answers, 500 with the opaque body, and
\* leave the store as it was.
C7_MalformedIdIsServerError ==
    [][\A c \in Clients : \A op \in {"GET", "PUT", "DELETE"} :
         (Completes(c, op) /\ reqs[c].id \in MalformedIds)
         => /\ reqs'[c].resp = InternalError
            /\ recipes' = recipes]_vars

C7_Witness ==
    \E c, d \in Clients :
        /\ Answered(c, "GET")
        /\ reqs[c].id \in MalformedIds
        /\ reqs[c].resp.status = 500
        /\ reqs[d].pc = "done" /\ reqs[d].op = "GET" /\ reqs[d].failed
        /\ reqs[d].id \in ValidIds
        /\ reqs[d].resp = reqs[c].resp

\* C8: no two stored recipes share an id, a Create never returns an id
\* an earlier Create returned, and no Update changes any stored id.
C8_IdsUniqueAndImmutable ==
    [][/\ \A i, j \in 1..Len(recipes') :
            recipes'[i]._id = recipes'[j]._id => i = j
       /\ \A c \in Clients :
            (Completes(c, "POST") /\ reqs'[c].resp.status = 201)
            => reqs'[c].resp.body.recipe._id \notin issued
       /\ \A c \in Clients :
            Completes(c, "PUT") => IdSeq(recipes') = IdSeq(recipes)]_vars

C8_Witness ==
    \E c \in Clients :
        /\ Answered(c, "POST")
        /\ reqs[c].resp.status = 201
        /\ deleted # {}
        /\ reqs[c].resp.body.recipe._id \notin deleted

\* C9: an Update and a Delete that both arrived while their common
\* identifier was stored: the Delete answers 200, the Update 200 or 404,
\* and with both answered the record is gone.
C9_UpdateDeleteRace ==
    \A c, d \in Clients :
        ( /\ Answered(c, "PUT") /\ Answered(d, "DELETE")
          /\ reqs[c].id = reqs[d].id
          /\ existedAtIssue[c] /\ existedAtIssue[d] )
        => /\ reqs[d].resp.status = 200
           /\ reqs[c].resp.status \in {200, 404}
           /\ ~Has(recipes, reqs[c].id)

C9_Witness ==
    \E c, d \in Clients :
        /\ Answered(c, "PUT") /\ Answered(d, "DELETE")
        /\ reqs[c].id = reqs[d].id
        /\ existedAtIssue[c] /\ existedAtIssue[d]
        /\ reqs[c].resp.status = 404

\* C10: every stored recipe has a non-empty title and has ingredients and
\* instructions present.
C10_RequiredFieldsStored ==
    \A i \in 1..Len(recipes) :
        /\ RequiredFields \subseteq DOMAIN recipes[i]
        /\ recipes[i].title # ""

====
